---- MODULE Spec2Model ----
(***************************************************************************)
(* Model of src/main.py: the parameter-sweep harness start() and its       *)
(* helper run_prompt().                                                    *)
(*                                                                         *)
(* Numbers.  top_k is an integer and is modelled as one.  temperature and  *)
(* top_p are floats; they are modelled in exact arithmetic as integer      *)
(* multiples of one tick = 0.002, so that 0.01 = 5 ticks.  No multiple of  *)
(* a tick lies exactly halfway between two hundredths, hence round(x, 2)   *)
(* is determined by the decimal value alone.  Binary floating-point drift  *)
(* of the repeated addition t = t + temp_inc is not modelled.              *)
(***************************************************************************)
EXTENDS Integers, Sequences, FiniteSets, TLC

\* ---------------------------------------------------------------- bounds
\* largest temperature bound (--temp_min/--temp_max) tried, in ticks
MaxTemp == 2
\* largest top_k bound (--top_k_min/--top_k_max) tried
MaxTopK == 1
\* largest top_p bound (--top_p_min/--top_p_max) tried, in ticks
MaxTopP == 1
\* largest increment tried (the smallest is -1)
MaxInc == 2

\* ------------------------------------------------------------- constants
\* Python's None (an integer outside every value range of the model)
None == -999
\* ticks per 0.01
Hundredth == 5
\* --seed default
seed == 42
\* --num_predict default
num_predict == None
\* --temp default, 1.0 in ticks
temp == 500
\* --top_k default
top_k == 1
\* --top_p default, 0.9 in ticks
top_p == 450
\* --model default
model == "llama3.1"

IncValues == -1 .. MaxInc

MaxOf(a, b) == IF a >= b THEN a ELSE b

\* values recorded by one expansion loop in the model; an expansion with a
\* positive increment never needs more than this, one with an increment
\* <= 0 and min <= max appends without end in the code
LoopCap == MaxOf(MaxTemp, MaxOf(MaxTopK, MaxTopP)) + 2

\* round(x, 2) on ticks: the nearest multiple of 0.01
round2(x) == Hundredth * ((x + 2) \div Hundredth)

\* get_prompts(): group name -> (prompt id -> contents), in insertion order
prompts ==
  << [name |-> "basic",
      items |-> << [id |-> "greet", contents |-> "Hello"],
                   [id |-> "greet_1", contents |-> "Hi"] >>],
     [name |-> "extra",
      items |-> << [id |-> "greet", contents |-> "Hey"] >>] >>

\* values of --group tried
GroupFilters == {"", "basic", "nosuch"}
\* --group not given
NoGroup == ""

\* datetime.now().strftime(...) of the invocation
current_timestamp == "20240101000000"
results_directory == "results_" \o current_timestamp

VARIABLES
  group,
  temp_min, temp_max, temp_inc,
  top_k_min, top_k_max, top_k_inc,
  top_p_min, top_p_max, top_p_inc,
  pc,
  t, k, p,
  temperature_values, top_k_values, top_p_values,
  dirs,
  gi, pi, option_index,
  test_options,
  test_result_file,
  stream, full_response,
  files,
  calls, writes, inflight

inputs == << group, temp_min, temp_max, temp_inc, top_k_min, top_k_max,
             top_k_inc, top_p_min, top_p_max, top_p_inc >>
expansion == << t, k, p, temperature_values, top_k_values, top_p_values >>
loops == << gi, pi, option_index, test_options, test_result_file >>
call == << stream, full_response >>
world == << dirs, files, calls, writes, inflight >>
vars == << inputs, pc, expansion, loops, call, world >>

\* ------------------------------------------------------------------ Init
Init ==
  /\ group \in GroupFilters
  /\ temp_min \in {None} \cup (0 .. MaxTemp)
  /\ temp_max \in {None} \cup (0 .. MaxTemp)
  /\ (temp_min = None) = (temp_max = None)
  /\ temp_inc \in IncValues
  /\ (temp_min = None) => temp_inc = MaxInc
  /\ top_k_min \in {None} \cup (0 .. MaxTopK)
  /\ top_k_max \in {None} \cup (0 .. MaxTopK)
  /\ (top_k_min = None) = (top_k_max = None)
  /\ top_k_inc \in IncValues
  /\ (top_k_min = None) => top_k_inc = MaxInc
  /\ top_p_min \in {None} \cup (0 .. MaxTopP)
  /\ top_p_max \in {None} \cup (0 .. MaxTopP)
  /\ (top_p_min = None) = (top_p_max = None)
  /\ top_p_inc \in IncValues
  /\ (top_p_min = None) => top_p_inc = MaxInc
  /\ pc = "temp"
  /\ t = None /\ k = None /\ p = None
  /\ temperature_values = << >>
  /\ top_k_values = << >>
  /\ top_p_values = << >>
  /\ dirs = {}
  /\ gi = 0 /\ pi = 0 /\ option_index = 0
  /\ test_options = << >>
  /\ test_result_file = ""
  /\ stream = << >>
  /\ full_response = ""
  /\ files = << >>
  /\ calls = << >>
  /\ writes = << >>
  /\ inflight = 0

\* ------------------------------------------------- range expansion
\* lines 175-177, 181-182: choose range mode or the fixed value
TempStart ==
  /\ pc = "temp"
  /\ IF temp_min # None /\ temp_max # None
       THEN /\ temperature_values' = << >>
            /\ t' = temp_min
            /\ pc' = "temp_loop"
       ELSE /\ temperature_values' = << temp >>
            /\ t' = t
            /\ pc' = "top_k"
  /\ UNCHANGED << inputs, k, p, top_k_values, top_p_values, loops, call, world >>

\* lines 178-180: one evaluation of the while condition and, if it holds,
\* one iteration of the body
TempLoop ==
  /\ pc = "temp_loop"
  /\ IF t <= temp_max
       THEN /\ Len(temperature_values) < LoopCap
            /\ temperature_values' = Append(temperature_values, round2(t))
            /\ t' = t + temp_inc
            /\ pc' = pc
       ELSE /\ pc' = "top_k"
            /\ UNCHANGED << t, temperature_values >>
  /\ UNCHANGED << inputs, k, p, top_k_values, top_p_values, loops, call, world >>

\* lines 185-187, 191-192
TopKStart ==
  /\ pc = "top_k"
  /\ IF top_k_min # None /\ top_k_max # None
       THEN /\ top_k_values' = << >>
            /\ k' = top_k_min
            /\ pc' = "top_k_loop"
       ELSE /\ top_k_values' = << top_k >>
            /\ k' = k
            /\ pc' = "top_p"
  /\ UNCHANGED << inputs, t, p, temperature_values, top_p_values, loops, call, world >>

\* lines 188-190: integer stepping, no rounding
TopKLoop ==
  /\ pc = "top_k_loop"
  /\ IF k <= top_k_max
       THEN /\ Len(top_k_values) < LoopCap
            /\ top_k_values' = Append(top_k_values, k)
            /\ k' = k + top_k_inc
            /\ pc' = pc
       ELSE /\ pc' = "top_p"
            /\ UNCHANGED << k, top_k_values >>
  /\ UNCHANGED << inputs, t, p, temperature_values, top_p_values, loops, call, world >>

\* lines 195-197, 201-202
TopPStart ==
  /\ pc = "top_p"
  /\ IF top_p_min # None /\ top_p_max # None
       THEN /\ top_p_values' = << >>
            /\ p' = top_p_min
            /\ pc' = "top_p_loop"
       ELSE /\ top_p_values' = << top_p >>
            /\ p' = p
            /\ pc' = "mkdir"
  /\ UNCHANGED << inputs, t, k, temperature_values, top_k_values, loops, call, world >>

\* lines 198-200
TopPLoop ==
  /\ pc = "top_p_loop"
  /\ IF p <= top_p_max
       THEN /\ Len(top_p_values) < LoopCap
            /\ top_p_values' = Append(top_p_values, round2(p))
            /\ p' = p + top_p_inc
            /\ pc' = pc
       ELSE /\ pc' = "mkdir"
            /\ UNCHANGED << p, top_p_values >>
  /\ UNCHANGED << inputs, t, k, temperature_values, top_k_values, loops, call, world >>

\* ------------------------------------------------------ option sets
\* lines 220-223
base_options == [seed |-> seed, num_predict |-> num_predict]

\* lines 227-228, 231-232, 235-236: dict(base_options) with one key set
new_option(key, value) == (key :> value) @@ base_options

\* variant: only the temperature values are iterated
BuildOptions_TempOnly(tv, kv, pv) ==
  [i \in 1 .. Len(tv) |-> new_option("temperature", tv[i])]

\* variant: nested loops, one option set per combination of values
BuildOptions_Cartesian(tv, kv, pv) ==
  [i \in 1 .. Len(tv) * Len(kv) * Len(pv) |->
     ("temperature" :> tv[((i - 1) \div (Len(kv) * Len(pv))) + 1])
     @@ ("top_k" :> kv[(((i - 1) \div Len(pv)) % Len(kv)) + 1])
     @@ ("top_p" :> pv[((i - 1) % Len(pv)) + 1])
     @@ base_options]

\* lines 224-237: one option set per temperature, then one per top_k, then
\* one per top_p
BuildOptions(tv, kv, pv) ==
  [i \in 1 .. Len(tv) |-> new_option("temperature", tv[i])]
  \o [i \in 1 .. Len(kv) |-> new_option("top_k", kv[i])]
  \o [i \in 1 .. Len(pv) |-> new_option("top_p", pv[i])]

\* variant: the comparison of line 214 inverted
Retained_Inverted(group_name) == ~(group # NoGroup /\ group_name = group)

\* line 214: the group is processed (not skipped by `continue`)
Retained(group_name) == ~(group # NoGroup /\ group_name # group)

\* line 217
GroupDirectory(group_name) == results_directory \o "/" \o group_name

\* variant: the result file is named after the prompt alone
ResultFile_NoIndex(test_group_directory, prompt_test, index) ==
  test_group_directory \o "/" \o prompt_test

\* lines 244-246: f"{test_group_directory}/{prompt_test}_{option_index}"
ResultFile(test_group_directory, prompt_test, index) ==
  test_group_directory \o "/" \o prompt_test \o "_" \o ToString(index)

\* ---------------------------------------------------- orchestration
\* lines 206-210: read the prompts, create the results root
MkdirRoot ==
  /\ pc = "mkdir"
  /\ results_directory \notin dirs
  /\ dirs' = dirs \cup {results_directory}
  /\ gi' = 1
  /\ pc' = "group"
  /\ UNCHANGED << inputs, expansion, pi, option_index, test_options,
                  test_result_file, call, files, calls, writes, inflight >>

\* lines 212-237: next group of the corpus; skip it, or create its
\* directory and build its option sets
GroupStep ==
  /\ pc = "group"
  /\ IF gi > Len(prompts)
       THEN /\ pc' = "done"
            /\ UNCHANGED << gi, pi, dirs, test_options >>
       ELSE IF ~Retained(prompts[gi].name)
         THEN /\ gi' = gi + 1
              /\ pc' = pc
              /\ UNCHANGED << pi, dirs, test_options >>
         ELSE /\ GroupDirectory(prompts[gi].name) \notin dirs
              /\ dirs' = dirs \cup {GroupDirectory(prompts[gi].name)}
              /\ test_options' =
                   BuildOptions(temperature_values, top_k_values, top_p_values)
              /\ pi' = 1
              /\ gi' = gi
              /\ pc' = "prompt"
  /\ UNCHANGED << inputs, expansion, option_index, test_result_file, call,
                  files, calls, writes, inflight >>

\* line 239: next prompt of the group
PromptStep ==
  /\ pc = "prompt"
  /\ IF pi > Len(prompts[gi].items)
       THEN /\ gi' = gi + 1
            /\ pc' = "group"
            /\ UNCHANGED << pi, option_index >>
       ELSE /\ option_index' = 0
            /\ pc' = "option"
            /\ UNCHANGED << gi, pi >>
  /\ UNCHANGED << inputs, expansion, test_options, test_result_file, call, world >>

\* variant: every other option set is skipped
NextIndex_Skip(i) == i + 2

\* index of the option set tried after option set i (enumerate, line 243)
NextIndex(i) == i + 1

\* lines 243-246: next option set of the prompt and its result file
OptionStep ==
  /\ pc = "option"
  /\ IF option_index >= Len(test_options)
       THEN /\ pi' = pi + 1
            /\ pc' = "prompt"
            /\ UNCHANGED test_result_file
       ELSE /\ test_result_file' =
                 ResultFile(GroupDirectory(prompts[gi].name),
                            prompts[gi].items[pi].id, option_index)
            /\ pc' = "generate"
            /\ UNCHANGED pi
  /\ UNCHANGED << inputs, expansion, gi, option_index, test_options, call, world >>

\* ------------------------------------------------------- run_prompt
\* the inference call being made
ThisCall ==
  [group |-> prompts[gi].name, prompt |-> prompts[gi].items[pi].id,
   index |-> option_index, model |-> model,
   text |-> prompts[gi].items[pi].contents,
   options |-> test_options[option_index + 1]]

\* the fragments the backend streams for a prompt
Fragments(text) == << "re:", text >>

\* lines 66-77: ollama.generate returns a stream
Generate ==
  /\ pc = "generate"
  /\ calls' = Append(calls, ThisCall)
  /\ inflight' = inflight + 1
  /\ stream' = Fragments(prompts[gi].items[pi].contents)
  /\ full_response' = ""
  /\ pc' = "chunks"
  /\ UNCHANGED << inputs, expansion, loops, dirs, files, writes >>

\* lines 66-71: ollama.generate raises; the exception is not caught
GenerateFails ==
  /\ pc = "generate"
  /\ calls' = Append(calls, ThisCall)
  /\ pc' = "crashed"
  /\ UNCHANGED << inputs, expansion, loops, call, dirs, files, writes, inflight >>

\* lines 78-80: next fragment, or end of the stream
Chunk ==
  /\ pc = "chunks"
  /\ IF stream # << >>
       THEN /\ full_response' = full_response \o Head(stream)
            /\ stream' = Tail(stream)
            /\ pc' = pc
            /\ UNCHANGED inflight
       ELSE /\ inflight' = inflight - 1
            /\ pc' = "write"
            /\ UNCHANGED << stream, full_response >>
  /\ UNCHANGED << inputs, expansion, loops, dirs, files, calls, writes >>

\* variant: the response received so far is written when the stream fails
ChunkFails_PartialWrite ==
  /\ pc = "chunks"
  /\ inflight' = inflight - 1
  /\ files' = [f \in DOMAIN files \cup {test_result_file} |->
                 IF f = test_result_file
                   THEN [prompt |-> prompts[gi].items[pi].contents,
                         options |-> test_options[option_index + 1],
                         response |-> full_response]
                   ELSE files[f]]
  /\ pc' = "crashed"
  /\ UNCHANGED << inputs, expansion, loops, call, dirs, calls, writes >>

\* line 78: the stream raises while it is iterated; not caught
ChunkFails ==
  /\ pc = "chunks"
  /\ inflight' = inflight - 1
  /\ pc' = "crashed"
  /\ UNCHANGED << inputs, expansion, loops, call, dirs, files, calls, writes >>

\* the artifact written for the call (lines 83-90)
Artifact ==
  [prompt |-> prompts[gi].items[pi].contents,
   options |-> test_options[option_index + 1],
   response |-> full_response]

\* open(path, "w") and write: create or replace the file
WriteFile(fs, path, content) ==
  [f \in DOMAIN fs \cup {path} |-> IF f = path THEN content ELSE fs[f]]

\* lines 82-90, then back to the enumerate loop of line 243
Write ==
  /\ pc = "write"
  /\ files' = WriteFile(files, test_result_file, Artifact)
  /\ writes' = Append(writes, test_result_file)
  /\ option_index' = NextIndex(option_index)
  /\ pc' = "option"
  /\ UNCHANGED << inputs, expansion, gi, pi, test_options, test_result_file,
                  call, dirs, calls, inflight >>

Next ==
  \/ TempStart
  \/ TempLoop
  \/ TopKStart
  \/ TopKLoop
  \/ TopPStart
  \/ TopPLoop
  \/ MkdirRoot
  \/ GroupStep
  \/ PromptStep
  \/ OptionStep
  \/ Generate
  \/ GenerateFails
  \/ Chunk
  \/ ChunkFails
  \/ Write

Spec == Init /\ [][Next]_vars

TypeOK == pc \in {"temp", "temp_loop", "top_k", "top_k_loop", "top_p",
                  "top_p_loop", "mkdir", "group", "prompt", "option",
                  "generate", "chunks", "write", "done", "crashed"}

\* ----------------------------------------------------- vocabulary
\* a parameter is in range mode when both its min and its max are given
TempRange == temp_min # None /\ temp_max # None
TopKRange == top_k_min # None /\ top_k_max # None
TopPRange == top_p_min # None /\ top_p_max # None
AllFixed == ~TempRange /\ ~TopKRange /\ ~TopPRange

\* the expansion of a parameter has finished
TempExpanded == pc \notin {"temp", "temp_loop"}
TopKExpanded == TempExpanded /\ pc \notin {"top_k", "top_k_loop"}
TopPExpanded == TopKExpanded /\ pc \notin {"top_p", "top_p_loop"}

\* test_options holds the option sets of the group being processed
Built == pc \in {"prompt", "option", "generate", "chunks", "write"}

\* the keys in which an option set differs from base_options
DiffKeys(o) ==
  {key \in DOMAIN o \cup DOMAIN base_options :
     \/ key \notin DOMAIN o
     \/ key \notin DOMAIN base_options
     \/ o[key] # base_options[key]}

Has(o, key, value) == key \in DOMAIN o /\ o[key] = value

NoDuplicates(seq) ==
  \A i, j \in 1 .. Len(seq) : i # j => seq[i] # seq[j]

\* the calls made so far for one prompt of one group
CallsFor(g, id) ==
  {i \in 1 .. Len(calls) : calls[i].group = g /\ calls[i].prompt = id}

\* ------------------------------------------------------------- C1
\* C1 (as stated): when temperature, top_k and top_p are all fixed-value,
\* the option-set sequence built by start() has exactly one element.
C1_SingleOptionSet ==
  (AllFixed /\ Built) => Len(test_options) = 1

\* C1 (amended): when temperature, top_k and top_p are all fixed-value, the
\* option-set sequence has exactly three elements, base_options with the
\* fixed temperature, with the fixed top_k and with the fixed top_p, and a
\* run that ends normally has made exactly three calls and written exactly
\* the artifacts <prompt_id>_0, _1, _2 for each prompt of a retained group.
C1_ThreeOptionSets ==
  AllFixed =>
    /\ Built =>
         test_options = << new_option("temperature", temp),
                           new_option("top_k", top_k),
                           new_option("top_p", top_p) >>
    /\ pc = "done" =>
         \A g \in 1 .. Len(prompts) :
           (group = NoGroup \/ prompts[g].name = group) =>
             \A q \in 1 .. Len(prompts[g].items) :
               LET name == prompts[g].name
                   id == prompts[g].items[q].id
               IN /\ Cardinality(CallsFor(name, id)) = 3
                  /\ \A n \in 0 .. 2 :
                       /\ results_directory \o "/" \o name \o "/" \o id
                            \o "_" \o ToString(n) \in DOMAIN files
                       /\ \E i \in CallsFor(name, id) : calls[i].index = n
    /\ pc = "done" =>
         Cardinality(DOMAIN files) =
           3 * Cardinality({c \in 1 .. Len(calls) : calls[c].index = 0})

W_C1 ==
  AllFixed /\ pc = "done" /\ group = "basic" /\ Cardinality(DOMAIN files) = 6

\* ------------------------------------------------------------- C2
\* C2 (as stated): the option-set sequence has length n1 + ... + nk, the
\* numbers of values of the swept (range-mode) parameters, and every option
\* set differs from base_options in at most one key.
C2_SumOverSwept ==
  (Built /\ ~AllFixed) =>
    /\ Len(test_options) =
         (IF TempRange THEN Len(temperature_values) ELSE 0)
         + (IF TopKRange THEN Len(top_k_values) ELSE 0)
         + (IF TopPRange THEN Len(top_p_values) ELSE 0)
    /\ \A i \in 1 .. Len(test_options) :
         Cardinality(DiffKeys(test_options[i])) <= 1

\* C2 (amended): the option-set sequence has length n1 + n2 + n3, the
\* numbers of values of temperature, top_k and top_p, a fixed-value
\* parameter counting as one value; the option sets come in that order,
\* and every option set differs from base_options in at most one key.
C2_SumOverAll ==
  Built =>
    LET n1 == Len(temperature_values)
        n2 == Len(top_k_values)
        n3 == Len(top_p_values)
    IN /\ ~TempRange => n1 = 1
       /\ ~TopKRange => n2 = 1
       /\ ~TopPRange => n3 = 1
       /\ Len(test_options) = n1 + n2 + n3
       /\ \A i \in 1 .. Len(test_options) :
            /\ Cardinality(DiffKeys(test_options[i])) <= 1
            /\ i <= n1 =>
                 Has(test_options[i], "temperature", temperature_values[i])
            /\ (n1 < i /\ i <= n1 + n2) =>
                 Has(test_options[i], "top_k", top_k_values[i - n1])
            /\ n1 + n2 < i =>
                 Has(test_options[i], "top_p", top_p_values[i - n1 - n2])

W_C2 ==
  /\ Built /\ TempRange /\ TopKRange /\ ~TopPRange
  /\ Len(temperature_values) = 3 /\ Len(top_k_values) = 2
  /\ Len(test_options) = 6

\* ------------------------------------------------------------- C3
\* C3: with two or more swept parameters, the option-set sequence has
\* length n1 x ... x nk and every combination of the swept parameters'
\* values appears in exactly one option set.
C3_Cartesian ==
  (Built /\ ((TempRange /\ TopKRange) \/ (TempRange /\ TopPRange)
             \/ (TopKRange /\ TopPRange))) =>
    LET tv == IF TempRange THEN temperature_values ELSE << None >>
        kv == IF TopKRange THEN top_k_values ELSE << None >>
        pv == IF TopPRange THEN top_p_values ELSE << None >>
        Combines(o, a, b, c) ==
          /\ TempRange => Has(o, "temperature", tv[a])
          /\ TopKRange => Has(o, "top_k", kv[b])
          /\ TopPRange => Has(o, "top_p", pv[c])
    IN /\ Len(test_options) = Len(tv) * Len(kv) * Len(pv)
       /\ \A a \in 1 .. Len(tv), b \in 1 .. Len(kv), c \in 1 .. Len(pv) :
            Cardinality({i \in 1 .. Len(test_options) :
                           Combines(test_options[i], a, b, c)}) = 1

\* ------------------------------------------------------------- C4
\* the three properties of one expanded range
RangeOK(min, max, inc, values) ==
  /\ \A i \in 1 .. Len(values) : min <= values[i] /\ values[i] <= max
  /\ \A i \in 1 .. Len(values) - 1 : values[i] < values[i + 1]
  /\ Len(values) = ((max - min) \div inc) + 1

\* C4: for every range-mode parameter with increment > 0 and min <= max,
\* every expanded value (after rounding) lies in [min, max], the values are
\* strictly increasing and there are floor((max - min) / increment) + 1.
C4_RangeExpansion ==
  /\ (TempExpanded /\ TempRange /\ temp_inc > 0 /\ temp_min <= temp_max) =>
       RangeOK(temp_min, temp_max, temp_inc, temperature_values)
  /\ (TopKExpanded /\ TopKRange /\ top_k_inc > 0 /\ top_k_min <= top_k_max) =>
       RangeOK(top_k_min, top_k_max, top_k_inc, top_k_values)
  /\ (TopPExpanded /\ TopPRange /\ top_p_inc > 0 /\ top_p_min <= top_p_max) =>
       RangeOK(top_p_min, top_p_max, top_p_inc, top_p_values)

\* ------------------------------------------------------------- C5
\* C5: range expansion terminates because no iteration of an expansion
\* loop is run without progress: each iteration moves the loop variable
\* strictly towards max, also for a range-mode parameter with min <= max
\* and increment <= 0 (which is rejected instead of being iterated).
C5_LoopsProgress ==
  [][/\ (pc = "temp_loop" /\ pc' = "temp_loop") => t' > t
     /\ (pc = "top_k_loop" /\ pc' = "top_k_loop") => k' > k
     /\ (pc = "top_p_loop" /\ pc' = "top_p_loop") => p' > p]_vars

\* ------------------------------------------------------------- C6
InvalidRange ==
  \/ TempRange /\ temp_min > temp_max
  \/ TopKRange /\ top_k_min > top_k_max
  \/ TopPRange /\ top_p_min > top_p_max

\* C6: no inference call is made and no artifact is written while some
\* range-mode parameter has min > max.
C6_InvalidRangeAborts ==
  InvalidRange => (calls = << >> /\ DOMAIN files = {})

\* ------------------------------------------------------------- C7
\* C7: no artifact path is computed twice: the paths written are pairwise
\* distinct, each is a file of its own, and the path computed for the
\* current iteration is not that of an artifact written earlier.
C7_PathsUnique ==
  /\ NoDuplicates(writes)
  /\ Cardinality(DOMAIN files) = Len(writes)
  /\ pc \in {"generate", "chunks", "write"} =>
       test_result_file \notin DOMAIN files

W_C7 ==
  /\ pc = "done" /\ group = NoGroup
  /\ Len(test_options) >= 5
  /\ Len(writes) = 3 * Len(test_options)

\* ------------------------------------------------------------- C8
GroupNames == {prompts[g].name : g \in 1 .. Len(prompts)}

\* C8: with a group filter, the only subdirectory ever created and the
\* only group ever called for is the filter's; if the filter names no group
\* of the corpus the run does not fail, and it ends with no subdirectory
\* and no call.
C8_FilterSkips ==
  group # NoGroup =>
    /\ \A d \in dirs :
         d = results_directory \/ d = results_directory \o "/" \o group
    /\ \A i \in 1 .. Len(calls) : calls[i].group = group
    /\ group \notin GroupNames =>
         /\ pc # "crashed"
         /\ dirs \subseteq {results_directory}
         /\ calls = << >>
         /\ DOMAIN files = {}

W_C8 == pc = "done" /\ group = "nosuch" /\ dirs = {results_directory}

\* ------------------------------------------------------------- C9
\* the calls of a complete run: groups and prompts in corpus order, option
\* sets in built order
ExpectedOfGroup(g) ==
  LET n == Len(temperature_values) + Len(top_k_values) + Len(top_p_values)
  IN [c \in 1 .. Len(g.items) * n |->
        [group |-> g.name,
         prompt |-> g.items[((c - 1) \div n) + 1].id,
         text |-> g.items[((c - 1) \div n) + 1].contents,
         index |-> (c - 1) % n]]

RECURSIVE ExpectedFrom(_)
ExpectedFrom(g) ==
  IF g > Len(prompts) THEN << >>
  ELSE (IF group = NoGroup \/ prompts[g].name = group
          THEN ExpectedOfGroup(prompts[g]) ELSE << >>)
       \o ExpectedFrom(g + 1)

\* C9: the calls made are, in order, one per (prompt, option set) of the
\* retained groups, all of them once the run ends normally; at most one
\* call is in flight, and a call is issued only when every earlier call's
\* stream is exhausted and its artifact written.
C9_Sequential ==
  LET expected == ExpectedFrom(1)
  IN /\ inflight <= 1
     /\ Len(calls) <= Len(expected)
     /\ \A i \in 1 .. Len(calls) :
          /\ calls[i].group = expected[i].group
          /\ calls[i].prompt = expected[i].prompt
          /\ calls[i].text = expected[i].text
          /\ calls[i].index = expected[i].index
          /\ calls[i].options = test_options[calls[i].index + 1]
     /\ pc = "generate" => (inflight = 0 /\ Len(writes) = Len(calls))
     /\ pc = "chunks" => (inflight = 1 /\ Len(writes) = Len(calls) - 1)
     /\ pc = "done" =>
          (Len(calls) = Len(expected) /\ Len(writes) = Len(calls))

W_C9 ==
  pc = "done" /\ group = NoGroup /\ Len(calls) >= 9 /\ Len(writes) = Len(calls)

\* ------------------------------------------------------------ C10
\* C10: the step at which a call or its stream fails writes nothing and
\* leaves every artifact as it was, the failing pair has no artifact, and
\* after the failure nothing more happens: no call, no artifact.
C10_FailureAborts ==
  [][/\ pc # "crashed"
     /\ pc' = "crashed" =>
          /\ files' = files
          /\ writes' = writes
          /\ test_result_file' \notin DOMAIN files'
          /\ Len(writes') = Len(calls') - 1]_vars

W_C10 == pc = "crashed" /\ Len(writes) >= 2 /\ inflight = 0
====
